---- MODULE Spec2Model ----
(***************************************************************************)
(* Model of src/main.py: a FastAPI application with fourteen route         *)
(* registrations.  A request is routed to the first registration matching  *)
(* method and path, its query/path/body values are validated against the  *)
(* constraints declared in the handler's signature, and only then the      *)
(* handler body runs: it builds a dict of sample values, conditionally     *)
(* merges parameters into it and returns.                                  *)
(*                                                                         *)
(* Strings are sequences of one-character strings.  Python/JSON values are *)
(* tagged records (JNull, JStr, JNum, JList, JObj), each kind with a       *)
(* payload field of its own.  An optional raw value is a sequence of       *)
(* length 0 (absent) or 1 (present).                                       *)
(***************************************************************************)
EXTENDS Integers, Sequences, FiniteSets, TLC

\* ------------------------------------------------------------------ bounds

\* longest query value made of repeated "a" (besides the fixed samples)
MaxQLen == 3
\* path segments "0" .. MaxItemId are offered (besides the fixed samples)
MaxItemId == 2
\* most key=value pairs in one query string
MaxQueryParams == 2
\* requests in flight at once in ConcSpec
NumSlots == 2

\* ------------------------------------------------------------------ values

None == <<>>
Some(v) == <<v>>

JNull == [t |-> "null"]
JStr(s) == [t |-> "str", s |-> s]
JNum(n) == [t |-> "num", n |-> n]
JList(l) == [t |-> "list", l |-> l]
JObj(m) == [t |-> "obj", m |-> m]

Rep(c, n) == [i \in 1..n |-> c]

FixedQuery == <<"f", "i", "x", "e", "d", "q", "u", "e", "r", "y">>
Foo == <<"F", "o", "o">>
Bar == <<"B", "a", "r">>

DigitChars == <<"0", "1", "2", "3", "4", "5", "6", "7", "8", "9">>

IsDigit(c) == \E d \in 1..10 : DigitChars[d] = c

DigitVal(c) == (CHOOSE d \in 1..10 : DigitChars[d] = c) - 1

RECURSIVE NatVal(_)
NatVal(s) == IF s = <<>> THEN 0
             ELSE 10 * NatVal(SubSeq(s, 1, Len(s) - 1)) + DigitVal(s[Len(s)])

AllDigits(s) == s # <<>> /\ \A i \in 1..Len(s) : IsDigit(s[i])

\* int(text) as the validation library applies it to a path segment or a
\* numeric text: None when the text is not an integer literal.
ParseInt(s) ==
    IF AllDigits(s) THEN Some(NatVal(s))
    ELSE IF Len(s) > 1 /\ s[1] = "-" /\ AllDigits(Tail(s)) THEN Some(0 - NatVal(Tail(s)))
    ELSE None

RECURSIVE ToDigits(_)
ToDigits(n) == IF n < 10 THEN <<DigitChars[n + 1]>>
               ELSE Append(ToDigits(n \div 10), DigitChars[(n % 10) + 1])

\* Python truthiness of a value: "if q:" / "if item:"
Truthy(x) ==
    CASE x.t = "null" -> FALSE
      [] x.t = "str"  -> x.s # <<>>
      [] x.t = "list" -> x.l # <<>>
      [] x.t = "num"  -> x.n # 0
      [] x.t = "obj"  -> TRUE

\* dict.update({k: v})
DictUpdate(m, k, val) == [x \in (DOMAIN m) \cup {k} |-> IF x = k THEN val ELSE m[x]]

\* ------------------------------------------------------------------ routes

NoQ == [kind |-> "none", alias |-> "q", required |-> FALSE,
        minLen |-> None, maxLen |-> None, regex |-> FALSE]
NoId == [gt |-> None, ge |-> None, le |-> None]

\* The registrations in the order the decorators run; "line" is the source
\* line of the handler's def.
Routes == <<
    [line |-> 10, method |-> "GET", path |-> "/items/", hasId |-> FALSE, id |-> NoId, body |-> "none",
     q |-> [kind |-> "str", alias |-> "q", required |-> FALSE,
            minLen |-> Some(3), maxLen |-> Some(50), regex |-> TRUE]],
    [line |-> 18, method |-> "GET", path |-> "/items2/", hasId |-> FALSE, id |-> NoId, body |-> "none",
     q |-> [kind |-> "str", alias |-> "q", required |-> TRUE,
            minLen |-> Some(3), maxLen |-> None, regex |-> FALSE]],
    [line |-> 26, method |-> "GET", path |-> "/items3/", hasId |-> FALSE, id |-> NoId, body |-> "none",
     q |-> [kind |-> "str", alias |-> "q", required |-> TRUE,
            minLen |-> Some(3), maxLen |-> None, regex |-> FALSE]],
    [line |-> 34, method |-> "GET", path |-> "/items/", hasId |-> FALSE, id |-> NoId, body |-> "none",
     q |-> [kind |-> "str", alias |-> "q", required |-> TRUE,
            minLen |-> Some(3), maxLen |-> None, regex |-> FALSE]],
    [line |-> 45, method |-> "GET", path |-> "/items_list/", hasId |-> FALSE, id |-> NoId, body |-> "none",
     q |-> [kind |-> "list", alias |-> "q", required |-> FALSE,
            minLen |-> None, maxLen |-> None, regex |-> FALSE]],
    [line |-> 53, method |-> "GET", path |-> "/readers/", hasId |-> FALSE, id |-> NoId, body |-> "none",
     q |-> [kind |-> "str", alias |-> "q", required |-> FALSE,
            minLen |-> Some(3), maxLen |-> None, regex |-> FALSE]],
    [line |-> 63, method |-> "GET", path |-> "/readers_alias/", hasId |-> FALSE, id |-> NoId, body |-> "none",
     q |-> [kind |-> "str", alias |-> "reader-query", required |-> FALSE,
            minLen |-> Some(3), maxLen |-> None, regex |-> FALSE]],
    [line |-> 78, method |-> "GET", path |-> "/posts/", hasId |-> FALSE, id |-> NoId, body |-> "none",
     q |-> [kind |-> "str", alias |-> "post-query", required |-> FALSE,
            minLen |-> Some(3), maxLen |-> Some(50), regex |-> TRUE]],
    [line |-> 132, method |-> "GET", path |-> "/items/", hasId |-> TRUE, id |-> NoId, body |-> "none",
     q |-> [kind |-> "str", alias |-> "item-query", required |-> FALSE,
            minLen |-> None, maxLen |-> None, regex |-> FALSE]],
    [line |-> 150, method |-> "GET", path |-> "/items/", hasId |-> TRUE, id |-> NoId, body |-> "none",
     q |-> [kind |-> "str", alias |-> "q", required |-> TRUE,
            minLen |-> None, maxLen |-> None, regex |-> FALSE]],
    [line |-> 166, method |-> "GET", path |-> "/items1/", hasId |-> TRUE,
     id |-> [gt |-> Some(1), ge |-> None, le |-> None], body |-> "none",
     q |-> [kind |-> "str", alias |-> "q", required |-> TRUE,
            minLen |-> None, maxLen |-> None, regex |-> FALSE]],
    [line |-> 184, method |-> "PUT", path |-> "/items/", hasId |-> TRUE,
     id |-> [gt |-> None, ge |-> Some(0), le |-> Some(1000)], body |-> "item_opt",
     q |-> [kind |-> "str", alias |-> "q", required |-> FALSE,
            minLen |-> None, maxLen |-> None, regex |-> FALSE]],
    [line |-> 203, method |-> "PUT", path |-> "/items/", hasId |-> TRUE, id |-> NoId, body |-> "item_user",
     q |-> NoQ],
    [line |-> 217, method |-> "GET", path |-> "/singular/", hasId |-> TRUE, id |-> NoId,
     body |-> "item_user_foo", q |-> NoQ]
>>

RouteAt(line) == CHOOSE r \in {Routes[i] : i \in 1..Len(Routes)} : r.line = line

\* ------------------------------------------------------------------ routing

\* The path of route r matches the request's path (prefix plus an optional
\* single non-empty segment in the place of {item_id}).
PathMatches(r, rq) == r.path = rq.path /\ r.hasId = (rq.seg # None)

FullMatches(rq) == {i \in 1..Len(Routes) : PathMatches(Routes[i], rq) /\ Routes[i].method = rq.method}

PartialMatches(rq) == {i \in 1..Len(Routes) : PathMatches(Routes[i], rq)}

\* variant: the last full match in registration order
LastMatch(rq) == CHOOSE i \in FullMatches(rq) : \A j \in FullMatches(rq) : j <= i

\* The router walks the routes in registration order and hands the request
\* to the first full match.
FirstMatch(rq) == CHOOSE i \in FullMatches(rq) : \A j \in FullMatches(rq) : i <= j

\* ------------------------------------------------------------------ query string

IsKey(p, key) == p[1] = key

RECURSIVE ValuesOf(_, _)
ValuesOf(query, key) ==
    IF query = <<>> THEN <<>>
    ELSE IF IsKey(Head(query), key) THEN <<Head(query)[2]>> \o ValuesOf(Tail(query), key)
    ELSE ValuesOf(Tail(query), key)

\* variant: only the last value of the key
QueryGetListLastOnly(query, key) ==
    LET vs == ValuesOf(query, key) IN IF vs = <<>> THEN <<>> ELSE <<vs[Len(vs)]>>

\* QueryParams.getlist(alias): every value of the key, in query-string order
QueryGetList(query, key) == ValuesOf(query, key)

\* QueryParams.get(alias): the multidict keeps the last value of a repeated key
QueryGet(query, key) ==
    LET vs == ValuesOf(query, key) IN IF vs = <<>> THEN None ELSE Some(vs[Len(vs)])

\* re.match("^fixedquery$", s): "$" also matches before one trailing newline
RegexMatches(s) == s = FixedQuery \/ s = FixedQuery \o <<"\n">>

\* ------------------------------------------------------------------ validation

\* A validation outcome: errs is the set of error tags (empty: valid) and val
\* the value handed to the handler.
Valid(val) == [errs |-> {}, val |-> val]
Invalid(e) == [errs |-> {e}, val |-> JNull]

\* variant: a length bound that is one too low
TooShortOffByOne(s, n) == Len(s) < n - 1

\* min_length=n: "ensure this value has at least n characters"
TooShort(s, n) == Len(s) < n

\* max_length=n
TooLong(s, n) == Len(s) > n

\* The constraints of a string Query(...) declaration applied to a present value
CheckStr(qd, s) ==
    IF qd.minLen # None /\ TooShort(s, qd.minLen[1]) THEN Invalid("q.min_length")
    ELSE IF qd.maxLen # None /\ TooLong(s, qd.maxLen[1]) THEN Invalid("q.max_length")
    ELSE IF qd.regex /\ ~RegexMatches(s) THEN Invalid("q.regex")
    ELSE Valid(JStr(s))

\* The query parameter of route r taken from the query string
ValidateQ(r, rq) ==
    CASE r.q.kind = "none" -> Valid(JNull)
      [] r.q.kind = "str" ->
            LET raw == QueryGet(rq.query, r.q.alias) IN
            IF raw = None
            THEN IF r.q.required THEN Invalid("q.missing") ELSE Valid(JNull)
            ELSE CheckStr(r.q, raw[1])
      [] r.q.kind = "list" ->
            LET vs == QueryGetList(rq.query, r.q.alias) IN
            IF vs = <<>> THEN Valid(JNull)
            ELSE Valid(JList([i \in 1..Len(vs) |-> JStr(vs[i])]))

\* variant: ge in the place of gt
GreaterOrEqual(n, bound) == n >= bound

\* gt=bound: "ensure this value is greater than bound"
GreaterThan(n, bound) == n > bound

\* The path parameter item_id: int conversion, then the numeric constraints
ValidateId(r, rq) ==
    IF ~r.hasId THEN Valid(JNull)
    ELSE LET n == ParseInt(rq.seg[1]) IN
         IF n = None THEN Invalid("item_id.type_error.integer")
         ELSE IF r.id.gt # None /\ ~GreaterThan(n[1], r.id.gt[1]) THEN Invalid("item_id.not_gt")
         ELSE IF r.id.ge # None /\ ~(n[1] >= r.id.ge[1]) THEN Invalid("item_id.not_ge")
         ELSE IF r.id.le # None /\ ~(n[1] <= r.id.le[1]) THEN Invalid("item_id.not_le")
         ELSE Valid(JNum(n[1]))

Has(j, k) == j.t = "obj" /\ k \in DOMAIN j.m

\* a str field: text as is, a number converted to its text
StrField(j, k) ==
    IF ~Has(j, k) THEN Invalid("missing")
    ELSE CASE j.m[k].t = "str" -> Valid(j.m[k])
           [] j.m[k].t = "num" /\ j.m[k].n >= 0 -> Valid(JStr(ToDigits(j.m[k].n)))
           [] OTHER -> Invalid("type_error.str")

\* a number field: a number as is, a numeric text converted
NumField(j, k) ==
    IF ~Has(j, k) THEN Invalid("missing")
    ELSE CASE j.m[k].t = "num" -> Valid(j.m[k])
           [] j.m[k].t = "str" /\ ParseInt(j.m[k].s) # None -> Valid(JNum(ParseInt(j.m[k].s)[1]))
           [] OTHER -> Invalid("type_error.number")

\* a field declared Union[T, None] = None
Optional(j, k, res) == IF ~Has(j, k) \/ j.m[k].t = "null" THEN Valid(JNull) ELSE res

\* class Item(BaseModel)
ValidateItem(j) ==
    IF j.t # "obj" THEN Invalid("item.type_error.dict")
    ELSE LET name == StrField(j, "name")
             description == Optional(j, "description", StrField(j, "description"))
             price == NumField(j, "price")
             tax == Optional(j, "tax", NumField(j, "tax"))
             errs == name.errs \cup description.errs \cup price.errs \cup tax.errs
         IN IF errs # {} THEN [errs |-> {"item." \o e : e \in errs}, val |-> JNull]
            ELSE Valid(JObj([name |-> name.val, description |-> description.val,
                             price |-> price.val, tax |-> tax.val]))

\* class User(BaseModel)
ValidateUser(j) ==
    IF j.t # "obj" THEN Invalid("user.type_error.dict")
    ELSE LET username == StrField(j, "username")
             full_name == Optional(j, "full_name", StrField(j, "full_name"))
             errs == username.errs \cup full_name.errs
         IN IF errs # {} THEN [errs |-> {"user." \o e : e \in errs}, val |-> JNull]
            ELSE Valid(JObj([username |-> username.val, full_name |-> full_name.val]))

\* a body parameter that is one key of the JSON body
HasKey(rq, k) == rq.body # None /\ Has(rq.body[1], k)

\* The body parameters of route r: the three outcomes for item, user and foo
ValidateBody(r, rq) ==
    CASE r.body = "none" -> [item |-> Valid(JNull), user |-> Valid(JNull), foo |-> Valid(JNull)]
      [] r.body = "item_opt" ->
            [item |-> IF rq.body = None THEN Valid(JNull) ELSE ValidateItem(rq.body[1]),
             user |-> Valid(JNull), foo |-> Valid(JNull)]
      [] r.body \in {"item_user", "item_user_foo"} ->
            [item |-> IF HasKey(rq, "item") THEN ValidateItem(rq.body[1].m["item"])
                      ELSE Invalid("item.missing"),
             user |-> IF HasKey(rq, "user") THEN ValidateUser(rq.body[1].m["user"])
                      ELSE Invalid("user.missing"),
             foo |-> IF r.body = "item_user" THEN Valid(JNull)
                     ELSE IF ~HasKey(rq, "foo") THEN Invalid("foo.missing")
                     ELSE IF NumField(rq.body[1], "foo").errs # {} THEN Invalid("foo.type_error.integer")
                     ELSE NumField(rq.body[1], "foo")]

\* Everything the framework resolves for route r before calling its handler
Solve(r, rq) ==
    LET q == ValidateQ(r, rq)
        id == ValidateId(r, rq)
        b == ValidateBody(r, rq)
    IN [errs |-> q.errs \cup id.errs \cup b.item.errs \cup b.user.errs \cup b.foo.errs,
        args |-> [q |-> q.val, item_id |-> id.val, item |-> b.item.val,
                  user |-> b.user.val, foo |-> b.foo.val]]

\* ------------------------------------------------------------------ handler bodies

Samples(listKey, idKey) ==
    (listKey :> JList(<<JObj(idKey :> JStr(Foo)), JObj(idKey :> JStr(Bar))>>))

\* The first statement of the handler defined at `line`: the dict it builds
InitialResults(line, a) ==
    CASE line \in {10, 18, 26, 34} -> Samples("items", "item_id")
      [] line = 45 -> ("q" :> a.q)
      [] line \in {53, 63} -> Samples("readers", "reader_id")
      [] line = 78 -> Samples("posts", "post_id")
      [] line \in {132, 150, 166, 184} -> ("item_id" :> a.item_id)
      [] line = 203 -> [item_id |-> a.item_id, item |-> a.item, user |-> a.user]
      [] line = 217 -> [item_id |-> a.item_id, item |-> a.item, user |-> a.user, foo |-> a.foo]

\* "if q: results.update({"q": q})"
MergeQ(a, d) == IF Truthy(a.q) THEN DictUpdate(d, "q", a.q) ELSE d

\* "if item: results.update({"item": item})"
MergeItem(a, d) == IF Truthy(a.item) THEN DictUpdate(d, "item", a.item) ELSE d

\* The conditional updates of the handler defined at `line`
Merge(line, a, d) ==
    CASE line \in {10, 18, 26, 34, 53, 63, 78, 132, 150, 166} -> MergeQ(a, d)
      [] line = 184 -> MergeItem(a, MergeQ(a, d))
      [] OTHER -> d

\* The value of the handler's return statement
ReturnValue(line, a, d) == IF line = 132 THEN a.q ELSE JObj(d)

\* variant: one dict object shared by every call
SharedCell(s) == 1

\* The dict literal evaluated by one call is a new object of its own: the
\* cell holding the results of the call running in slot s.
ResultsCell(s) == s

\* ------------------------------------------------------------------ requests

Request(method, path, seg, query, body) ==
    [method |-> method, path |-> path, seg |-> seg, query |-> query, body |-> body]

LongQuery == Rep("a", 51)

QValues == {Rep("a", n) : n \in 0..MaxQLen} \cup {FixedQuery, FixedQuery \o <<"\n">>, LongQuery}

Segs == {ToDigits(n) : n \in 0..MaxItemId}
            \cup {<<"-", "1">>, ToDigits(1000), ToDigits(1001), <<"f", "o", "o">>}

\* the query keys some route serving this method and path reads, and "q"
KeysOf(method, path, seg) ==
    {"q"} \cup {Routes[i].q.alias : i \in FullMatches(Request(method, path, seg, <<>>, None))}

SeqsUpTo(S, n) == UNION {[1..k -> S] : k \in 0..n}

\* a pair no handler reads
OtherPair == <<"page", <<"1">>>>

\* the values used in query strings of more than one pair
RepeatValues == {<<"a">>, <<"a", "a">>, <<"a", "a", "a">>, FixedQuery}

\* Query strings: every single pair, and the longer strings over the repeated
\* values (repeated keys, keys mixed with pairs the handler does not read)
Queries(method, path, seg) ==
    SeqsUpTo((KeysOf(method, path, seg) \X QValues) \cup {OtherPair}, 1)
    \cup SeqsUpTo((KeysOf(method, path, seg) \X RepeatValues) \cup {OtherPair}, MaxQueryParams)

ItemPlain == JObj([name |-> JStr(Foo), price |-> JNum(35)])
ItemFull == JObj([name |-> JStr(Foo), description |-> JStr(Bar),
                  price |-> JStr(<<"4", "2">>), tax |-> JNum(3)])
ItemBadPrice == JObj([name |-> JStr(Foo), price |-> JStr(Bar)])
UserPlain == JObj([username |-> JStr(Bar)])
ItemUserFoo == JObj([item |-> ItemPlain, user |-> UserPlain, foo |-> JNum(5)])
ItemUser == JObj([item |-> ItemPlain, user |-> UserPlain])

BodySamples == <<None, Some(ItemPlain), Some(ItemFull), Some(ItemBadPrice),
                 Some(ItemUserFoo), Some(ItemUser)>>

CollectionPaths == {"/items/", "/items2/", "/items3/", "/items_list/", "/readers/",
                    "/readers_alias/", "/posts/", "/nope/"}

\* The requests offered to the application: every method and path with and
\* without a segment, every query string over the keys the path reads, and a
\* body where some handler of the path declares one.
Requests ==
    UNION {{Request("GET", p, None, qs, None) : qs \in Queries("GET", p, None)} : p \in CollectionPaths}
    \cup {Request("PUT", p, None, <<>>, None) : p \in CollectionPaths}
    \cup UNION {{Request("GET", p, Some(sg), qs, None) :
                    sg \in Segs, qs \in Queries("GET", p, Some(<<"0">>))} : p \in {"/items/", "/items1/"}}
    \cup {Request("GET", "/singular/", Some(sg), qs, BodySamples[b]) :
             sg \in Segs, qs \in {<<>>, <<<<"q", FixedQuery>>>>}, b \in 1..Len(BodySamples)}
    \cup {Request("PUT", "/items/", Some(sg), qs, bd) :
             sg \in Segs, qs \in Queries("PUT", "/items/", Some(<<"0">>)), bd \in {None, Some(ItemPlain)}}
    \cup {Request("PUT", "/items/", Some(sg), qs, BodySamples[b]) :
             sg \in Segs, qs \in {<<>>, <<<<"q", <<>>>>>>, <<<<"q", <<"a">>>>>>},
             b \in 1..Len(BodySamples)}
    \cup {Request("PUT", p, Some(<<"1">>), <<>>, None) : p \in {"/items1/", "/singular/"}}

\* The requests of the concurrent specification: handlers that build
\* different dicts, and requests answered without a handler
ConcRequests ==
    {Request("GET", "/items/", None, <<<<"q", FixedQuery>>>>, None),
     Request("GET", "/items_list/", None, <<<<"q", Rep("a", 1)>>, <<"q", Rep("a", 2)>>>>, None),
     Request("GET", "/readers/", None, <<<<"q", Rep("a", 2)>>>>, None),
     Request("GET", "/items/", Some(<<"1">>), <<<<"item-query", Rep("a", 1)>>>>, None),
     Request("PUT", "/items/", Some(<<"2">>), <<<<"q", Rep("a", 2)>>>>, Some(ItemPlain)),
     Request("PUT", "/readers/", None, <<>>, None),
     Request("GET", "/nope/", None, <<>>, None)}

Slots == 1..NumSlots

\* ------------------------------------------------------------------ state

VARIABLES
    pc,        \* per slot: idle, received, matched, ready, built, updated, done
    req,       \* per slot: the request being served (None when idle)
    handler,   \* per slot: def line of the handler the request was routed to
    args,      \* per slot: the validated arguments the handler is called with
    heap,      \* per cell: the results dict object living there (None: free)
    executed,  \* per slot: def line of the handler whose body has run a statement
    resp       \* per slot: the response (None until the request is done)

vars == <<pc, req, handler, args, heap, executed, resp>>

NoArgs == [q |-> JNull, item_id |-> JNull, item |-> JNull, user |-> JNull, foo |-> JNull]

Response(status, body) == [status |-> status, body |-> body]

Init ==
    /\ pc = [s \in Slots |-> "idle"]
    /\ req = [s \in Slots |-> None]
    /\ handler = [s \in Slots |-> None]
    /\ args = [s \in Slots |-> NoArgs]
    /\ heap = [c \in Slots |-> None]
    /\ executed = [s \in Slots |-> None]
    /\ resp = [s \in Slots |-> None]

\* A request of the set R arrives
Receive(s, R) ==
    /\ pc[s] = "idle"
    /\ \E rq \in R : req' = [req EXCEPT ![s] = Some(rq)]
    /\ pc' = [pc EXCEPT ![s] = "received"]
    /\ UNCHANGED <<handler, args, heap, executed, resp>>

\* The router picks the handler, or answers 405 / 404 itself
Dispatch(s) ==
    /\ pc[s] = "received"
    /\ \/ /\ FullMatches(req[s][1]) # {}
          /\ handler' = [handler EXCEPT ![s] = Some(Routes[FirstMatch(req[s][1])].line)]
          /\ pc' = [pc EXCEPT ![s] = "matched"]
          /\ UNCHANGED resp
       \/ /\ FullMatches(req[s][1]) = {}
          /\ PartialMatches(req[s][1]) # {}
          /\ resp' = [resp EXCEPT ![s] = Some(Response(405, JObj("detail" :> JStr(<<"M">>))))]
          /\ pc' = [pc EXCEPT ![s] = "done"]
          /\ UNCHANGED handler
       \/ /\ PartialMatches(req[s][1]) = {}
          /\ resp' = [resp EXCEPT ![s] = Some(Response(404, JObj("detail" :> JStr(<<"N">>))))]
          /\ pc' = [pc EXCEPT ![s] = "done"]
          /\ UNCHANGED handler
    /\ UNCHANGED <<req, args, heap, executed>>

\* The framework resolves the handler's parameters: 422 on any error
Validate(s) ==
    /\ pc[s] = "matched"
    /\ LET sol == Solve(RouteAt(handler[s][1]), req[s][1]) IN
       \/ /\ sol.errs = {}
          /\ args' = [args EXCEPT ![s] = sol.args]
          /\ pc' = [pc EXCEPT ![s] = "ready"]
          /\ UNCHANGED resp
       \/ /\ sol.errs # {}
          /\ resp' = [resp EXCEPT ![s] = Some(Response(422, JObj("detail" :> JStr(<<"V">>))))]
          /\ pc' = [pc EXCEPT ![s] = "done"]
          /\ UNCHANGED args
    /\ UNCHANGED <<req, handler, heap, executed>>

\* The handler's first statement builds its dict
Build(s) ==
    /\ pc[s] = "ready"
    /\ heap' = [heap EXCEPT ![ResultsCell(s)] = Some(InitialResults(handler[s][1], args[s]))]
    /\ executed' = [executed EXCEPT ![s] = handler[s]]
    /\ pc' = [pc EXCEPT ![s] = "built"]
    /\ UNCHANGED <<req, handler, args, resp>>

\* The handler's conditional updates of its dict
Update(s) ==
    /\ pc[s] = "built"
    /\ heap' = [heap EXCEPT ![ResultsCell(s)] = Some(Merge(handler[s][1], args[s], @[1]))]
    /\ pc' = [pc EXCEPT ![s] = "updated"]
    /\ UNCHANGED <<req, handler, args, executed, resp>>

\* The handler returns and the value is sent as the 200 response
Return(s) ==
    /\ pc[s] = "updated"
    /\ resp' = [resp EXCEPT ![s] =
                   Some(Response(200, ReturnValue(handler[s][1], args[s], heap[ResultsCell(s)][1])))]
    /\ pc' = [pc EXCEPT ![s] = "done"]
    /\ UNCHANGED <<req, handler, args, heap, executed>>

InBody(s) == pc[s] \in {"built", "updated"}

\* The connection is finished; the call's dict is dropped with its last reference
Close(s) ==
    /\ pc[s] = "done"
    /\ pc' = [pc EXCEPT ![s] = "idle"]
    /\ req' = [req EXCEPT ![s] = None]
    /\ handler' = [handler EXCEPT ![s] = None]
    /\ args' = [args EXCEPT ![s] = NoArgs]
    /\ executed' = [executed EXCEPT ![s] = None]
    /\ resp' = [resp EXCEPT ![s] = None]
    /\ heap' = IF \E t \in Slots \ {s} : InBody(t) /\ ResultsCell(t) = ResultsCell(s)
               THEN heap
               ELSE [heap EXCEPT ![ResultsCell(s)] = None]

Step(s) == Dispatch(s) \/ Validate(s) \/ Build(s) \/ Update(s) \/ Return(s) \/ Close(s)

\* One request at a time, over the whole request domain
Next == Receive(1, Requests) \/ Step(1)

Spec == Init /\ [][Next]_vars

\* Several requests in flight, their steps interleaved in any order
ConcNext == \E s \in Slots : Receive(s, ConcRequests) \/ Step(s)

ConcSpec == Init /\ [][ConcNext]_vars

\* ------------------------------------------------------------------ properties

Done(s) == pc[s] = "done"
Status(s) == resp[s][1].status
Body(s) == resp[s][1].body
Is(s, method, path, withId) ==
    /\ req[s] # None
    /\ req[s][1].method = method
    /\ req[s][1].path = path
    /\ (req[s][1].seg # None) = withId

\* the request's query string names the key at least once
Supplied(s, key) == \E i \in 1..Len(req[s][1].query) : req[s][1].query[i][1] = key

\* the value the request gives the key (its last occurrence when repeated)
SuppliedValue(s, key) ==
    LET query == req[s][1].query
        i == CHOOSE k \in 1..Len(query) :
                 query[k][1] = key /\ \A j \in (k + 1)..Len(query) : query[j][1] # key
    IN query[i][2]

\* the query key read by the handlers that declare an optional q
OptionalQKey(line) ==
    CASE line \in {10, 53, 184} -> "q"
      [] line = 63 -> "reader-query"
      [] line = 78 -> "post-query"
      [] line = 132 -> "item-query"

\* C1: on every handler with an optional q, a successful response is a mapping
\* that has "q" bound to the supplied value when q was supplied (an empty
\* string included) and has no "q" when it was not.
C1_SuppliedQEchoed ==
    \A s \in Slots :
        (Done(s) /\ Status(s) = 200 /\ handler[s][1] \in {10, 53, 63, 78, 132, 184}) =>
            /\ Body(s).t = "obj"
            /\ IF Supplied(s, OptionalQKey(handler[s][1]))
               THEN /\ "q" \in DOMAIN Body(s).m
                    /\ Body(s).m["q"] = JStr(SuppliedValue(s, OptionalQKey(handler[s][1])))
               ELSE "q" \notin DOMAIN Body(s).m

\* C2: every successful response is a mapping, never a bare string or null.
C2_ResponseIsMapping ==
    \A s \in Slots : (Done(s) /\ Status(s) = 200) => Body(s).t = "obj"

IntSeg(s) == ParseInt(req[s][1].seg[1]) # None
IdOf(s) == ParseInt(req[s][1].seg[1])[1]
QLen(s, key) == Len(SuppliedValue(s, key))
AbsentOr(s, key, ok) == Supplied(s, key) => ok
BodyKey(s, k) == req[s][1].body # None /\ Has(req[s][1].body[1], k)

\* The constraints the signature of the handler defined at `line` declares,
\* read off the source, as a predicate of the request in slot s.
Declared(line, s) ==
    CASE line \in {10, 78} ->
            AbsentOr(s, OptionalQKey(line),
                     /\ QLen(s, OptionalQKey(line)) >= 3
                     /\ QLen(s, OptionalQKey(line)) <= 50
                     /\ RegexMatches(SuppliedValue(s, OptionalQKey(line))))
      [] line \in {18, 26, 34} -> Supplied(s, "q") /\ QLen(s, "q") >= 3
      [] line = 45 -> TRUE
      [] line \in {53, 63} -> AbsentOr(s, OptionalQKey(line), QLen(s, OptionalQKey(line)) >= 3)
      [] line = 132 -> IntSeg(s)
      [] line = 150 -> IntSeg(s) /\ Supplied(s, "q")
      [] line = 166 -> IntSeg(s) /\ IdOf(s) > 1 /\ Supplied(s, "q")
      [] line = 184 -> /\ IntSeg(s) /\ IdOf(s) >= 0 /\ IdOf(s) <= 1000
                       /\ req[s][1].body # None => ValidateItem(req[s][1].body[1]).errs = {}
      [] line \in {203, 217} ->
            /\ IntSeg(s)
            /\ BodyKey(s, "item") /\ ValidateItem(req[s][1].body[1].m["item"]).errs = {}
            /\ BodyKey(s, "user") /\ ValidateUser(req[s][1].body[1].m["user"]).errs = {}
            /\ line = 217 => BodyKey(s, "foo") /\ NumField(req[s][1].body[1], "foo").errs = {}

\* C3: a handler body runs only for a request that satisfies the constraints of
\* that handler, and a request that violates the constraints of the handler it
\* was dispatched to ends in an error response with no handler statement run.
C3_ValidationPrecedesHandler ==
    \A s \in Slots :
        /\ executed[s] # None => (executed[s] = handler[s] /\ Declared(executed[s][1], s))
        /\ (Done(s) /\ handler[s] # None /\ ~Declared(handler[s][1], s)) =>
               (Status(s) = 422 /\ executed[s] = None)

\* a request to read_items3 with a two-character q was rejected before the body ran
C3_Witness ==
    \E s \in Slots :
        /\ Done(s) /\ handler[s] = Some(26) /\ Supplied(s, "q") /\ QLen(s, "q") = 2
        /\ Status(s) = 422 /\ executed[s] = None

MinLenKey(path) ==
    CASE path = "/readers_alias/" -> "reader-query"
      [] path = "/posts/" -> "post-query"
      [] OTHER -> "q"

MinLenPaths == {"/items/", "/items2/", "/items3/", "/readers/", "/readers_alias/", "/posts/"}

\* C4: on the routes whose q declares min_length=3, a request whose value for
\* that parameter (the last occurrence of the key) has length 0, 1 or 2 gets a
\* 422 response, and no successful response carries a "q" shorter than 3.
C4_ShortQRejected ==
    \A s \in Slots : \A p \in MinLenPaths :
        (Done(s) /\ Is(s, "GET", p, FALSE)) =>
            /\ (Supplied(s, MinLenKey(p)) /\ QLen(s, MinLenKey(p)) < 3) => Status(s) = 422
            /\ (Status(s) = 200 /\ Body(s).t = "obj" /\ "q" \in DOMAIN Body(s).m) =>
                   Len(Body(s).m["q"].s) >= 3

\* C4 as stated: a request supplying any value of length 0, 1 or 2 for the
\* parameter gets a 422 response.
C4_AnyShortValueRejected ==
    \A s \in Slots : \A p \in MinLenPaths :
        (Done(s) /\ Is(s, "GET", p, FALSE)
            /\ \E i \in 1..Len(req[s][1].query) :
                   req[s][1].query[i][1] = MinLenKey(p) /\ Len(req[s][1].query[i][2]) < 3) =>
            Status(s) = 422

\* /readers_alias/ rejected a two-character reader-query
C4_Witness ==
    \E s \in Slots :
        /\ Done(s) /\ Is(s, "GET", "/readers_alias/", FALSE)
        /\ Supplied(s, "reader-query") /\ QLen(s, "reader-query") = 2
        /\ Status(s) = 422

\* The response a request gets when it is processed alone, start to end
Serve(rq) ==
    IF FullMatches(rq) = {}
    THEN IF PartialMatches(rq) # {}
         THEN Response(405, JObj("detail" :> JStr(<<"M">>)))
         ELSE Response(404, JObj("detail" :> JStr(<<"N">>)))
    ELSE LET line == Routes[FirstMatch(rq)].line
             sol == Solve(RouteAt(line), rq)
         IN IF sol.errs # {}
            THEN Response(422, JObj("detail" :> JStr(<<"V">>)))
            ELSE Response(200, ReturnValue(line, sol.args,
                                           Merge(line, sol.args, InitialResults(line, sol.args))))

\* C5: with requests interleaved in any order, every response equals the
\* response the same request gets alone, and the dict a call is working on
\* holds exactly what that call put there.
C5_ResponsesIndependent ==
    \A s \in Slots :
        /\ Done(s) => resp[s][1] = Serve(req[s][1])
        /\ pc[s] = "built" =>
               heap[ResultsCell(s)] = Some(InitialResults(handler[s][1], args[s]))
        /\ pc[s] = "updated" =>
               heap[ResultsCell(s)] =
                   Some(Merge(handler[s][1], args[s], InitialResults(handler[s][1], args[s])))

\* two calls of different handlers are inside their bodies at the same time
C5_Witness ==
    \E s, t \in Slots :
        /\ s # t /\ pc[s] = "updated" /\ pc[t] = "built"
        /\ handler[s] = Some(184) /\ handler[t] = Some(10)

\* C6: a GET /items/ request without q is rejected with a validation error.
C6_ItemsQRequired ==
    \A s \in Slots :
        (Done(s) /\ Is(s, "GET", "/items/", FALSE) /\ ~Supplied(s, "q")) => Status(s) = 422

\* C7: GET /items1/{item_id} with q supplied accepts and echoes every integer
\* item_id >= 1 and rejects every item_id below 1.
C7_ItemIdAtLeastOne ==
    \A s \in Slots :
        (Done(s) /\ Is(s, "GET", "/items1/", TRUE) /\ IntSeg(s) /\ Supplied(s, "q")) =>
            IF IdOf(s) >= 1
            THEN /\ Status(s) = 200
                 /\ Body(s).t = "obj"
                 /\ Body(s).m["item_id"] = JNum(IdOf(s))
            ELSE Status(s) = 422

\* the positions of the key q in the query string, and the k-th of them
QPositions(s) == {i \in 1..Len(req[s][1].query) : req[s][1].query[i][1] = "q"}
KthQ(s, k) == CHOOSE i \in QPositions(s) : Cardinality({j \in QPositions(s) : j <= i}) = k

\* C8: GET /items_list/ answers a mapping with exactly the key "q": the list
\* of every supplied q in query-string order, duplicates kept, or null when q
\* is absent.
C8_ItemsListEchoesAll ==
    \A s \in Slots :
        (Done(s) /\ Is(s, "GET", "/items_list/", FALSE)) =>
            /\ Status(s) = 200
            /\ Body(s).t = "obj"
            /\ DOMAIN Body(s).m = {"q"}
            /\ IF QPositions(s) = {}
               THEN Body(s).m["q"] = JNull
               ELSE /\ Body(s).m["q"].t = "list"
                    /\ Len(Body(s).m["q"].l) = Cardinality(QPositions(s))
                    /\ \A k \in 1..Cardinality(QPositions(s)) :
                           Body(s).m["q"].l[k] = JStr(req[s][1].query[KthQ(s, k)][2])

\* /items_list/ answered two equal q values, both kept
C8_Witness ==
    \E s \in Slots :
        /\ Done(s) /\ Is(s, "GET", "/items_list/", FALSE)
        /\ req[s][1].query = <<<<"q", <<"a">>>>, <<"q", <<"a">>>>>>
        /\ Status(s) = 200
        /\ Len(Body(s).m["q"].l) = 2

ShadowedHandlers == {34, 150, 203}

\* C9: the first registration of a (method, path) pair serves every request
\* to it; the later registrations (lines 34, 150, 203) are never chosen and
\* their bodies never run, also when the first handler rejects the request.
C9_FirstRegistrationWins ==
    \A s \in Slots :
        /\ handler[s] # None => handler[s][1] \notin ShadowedHandlers
        /\ executed[s] # None => executed[s][1] \notin ShadowedHandlers
        /\ (handler[s] # None /\ Is(s, "GET", "/items/", FALSE)) => handler[s] = Some(10)
        /\ (handler[s] # None /\ Is(s, "GET", "/items/", TRUE)) => handler[s] = Some(132)
        /\ (handler[s] # None /\ Is(s, "PUT", "/items/", TRUE)) => handler[s] = Some(184)
        /\ (pc[s] \notin {"idle", "received"}
               /\ (Is(s, "GET", "/items/", FALSE) \/ Is(s, "GET", "/items/", TRUE)
                      \/ Is(s, "PUT", "/items/", TRUE))) => handler[s] # None

\* GET /items/?q=aaa: the first handler's regex rejects what the second
\* registration would accept, and no body ran
C9_Witness ==
    \E s \in Slots :
        /\ Done(s) /\ Is(s, "GET", "/items/", FALSE)
        /\ req[s][1].query = <<<<"q", <<"a", "a", "a">>>>>>
        /\ handler[s] = Some(10) /\ Status(s) = 422 /\ executed[s] = None

====
